---- MODULE Spec2Model ----
(***************************************************************************)
(* Stock simulator: the socket.io subscription registry and per-symbol     *)
(* price polling loops of server.js, and the provider fallback chain of    *)
(* services/stockDataService.js.                                           *)
(***************************************************************************)
EXTENDS Integers, Sequences, FiniteSets, Bags, TLC

(* ---------------------------------------------------------------------- *)
(* Bounds                                                                  *)
(* ---------------------------------------------------------------------- *)
MaxViewers == 2
MaxInFlight == 1

Viewers == 1..MaxViewers
Symbols == {"X", "Y"}
\* what a client may send as the symbol argument; the handlers upper-case it
SymbolInputs == {"x", "Y"}
NoTimer == 0
\* handles setInterval can return: one per symbol suffices, a second one shows
\* a timer started while another is active
TimerIds == 1..(Cardinality(Symbols) + 1)

VARIABLES
  connected,            \* sockets currently connected (io.on('connection') ran, no disconnect yet)
  rooms,                \* io.sockets.adapter.rooms: symbol -> set of sockets that joined
  subscribedSymbols,    \* the Set of server.js
  priceUpdateIntervals, \* the Map of server.js: symbol -> timer handle, NoTimer when absent
  timers,               \* the interval timers Node keeps active (setInterval without clearInterval)
  inflight,             \* bag of interval callbacks suspended at await getCurrentPrice(symbol)
  quiet,                \* history: symbols whose last viewer unsubscribed, no subscribe since
  event,                \* history: the handler that ran last and what it observed
  cfg,                  \* API_CONFIG and the adapters' keys, fixed when the modules load
  agg,                  \* the StockDataService call being observed: arguments, what the
                        \* upstream providers answer, adapter calls made, value returned
  last,                 \* history: the call that returned last and the time since then
  mock,                 \* the loop of one generateMockData call: index, price, last candle
  client,               \* public/app.js in one browser: its globals, its subscriptions, its pending awaits
  portfolio             \* the portfolio of server.js, with the last trade response

regVars == <<connected, rooms, subscribedSymbols, priceUpdateIntervals, timers,
             inflight, quiet, event>>
aggVars == <<cfg, agg, last, mock>>
appVars == <<client, portfolio>>

vars == <<connected, rooms, subscribedSymbols, priceUpdateIntervals, timers,
          inflight, quiet, event, cfg, agg, last, mock, client, portfolio>>

(* ---------------------------------------------------------------------- *)
(* Helpers of the registry                                                 *)
(* ---------------------------------------------------------------------- *)
toUpperCase(s) == CASE s = "x" -> "X" [] s = "y" -> "Y" [] OTHER -> s

\* what getCurrentPrice can hand to the interval callback
\* (a rejection, null, undefined, or a number that may be zero or negative)
FetchResults ==
  { [kind |-> k, price |-> 0] : k \in {"throw", "null", "undefined"} }
    \cup { [kind |-> "number", price |-> p] : p \in {-5, 0, 150} }

\* event.viewer and event.left are set by disconnect, event.member by subscribe
\* and unsubscribe (the socket was in the room when the handler started),
\* event.result, event.recipients and event.shrank by the end of a tick
\* event.payload is the object a priceUpdate carries; event.cancelled says that
\* the timer of the tick that ended had been cleared before it ended
NoPayload == [symbol |-> "", price |-> [kind |-> "null", price |-> 0], timestamp |-> ""]
NoEvent == [op |-> "none", viewer |-> 0, symbol |-> "", member |-> FALSE,
            left |-> {}, result |-> [kind |-> "null", price |-> 0],
            recipients |-> {}, shrank |-> FALSE, payload |-> NoPayload,
            cancelled |-> FALSE]

TimersOf(ts, s) == { t \in ts : t.symbol = s }

\* setInterval returns a handle that no active timer has
FreeTimerIds == TimerIds \ { t.id : t \in timers }
Least(S) == CHOOSE i \in S : \A j \in S : i <= j

\* priceUpdateIntervals.has(symbol)
HasNever(map, s) == FALSE
Has(map, s) == map[s] # NoTimer

\* startPriceUpdates(symbol): st = [map, timers], id = the handle setInterval returns
StartUnregistered(st, s, id) ==
  [map |-> st.map, timers |-> st.timers \cup {[id |-> id, symbol |-> s]}]
StartPriceUpdates(st, s, id) ==
  IF Has(st.map, s)
  THEN st
  ELSE [map |-> [st.map EXCEPT ![s] = id],
        timers |-> st.timers \cup {[id |-> id, symbol |-> s]}]

\* stopPriceUpdates(symbol)
StopDeferred(st, s) == st
StopEvery(st, s) == [map |-> [x \in DOMAIN st.map |-> NoTimer], timers |-> {}]
StopWithoutClear(st, s) ==
  IF st.map[s] # NoTimer
  THEN [map |-> [st.map EXCEPT ![s] = NoTimer], timers |-> st.timers]
  ELSE st
StopPriceUpdates(st, s) ==
  IF st.map[s] # NoTimer
  THEN [map |-> [st.map EXCEPT ![s] = NoTimer],
        timers |-> { t \in st.timers : t.id # st.map[s] }]
  ELSE st

\* if (!room || room.size === 0)
RoomEmptyNever(room) == FALSE
RoomEmptyAlways(room) == TRUE
RoomEmpty(room) == room = {}

\* io.to(symbol).emit(...): the sockets in the room when emit runs
EmitToAll(rm, conn, s) == conn
EmitTo(rm, conn, s) == rm[s]

\* if (price !== null && price > 0)
PublishUnlessNull(r) == r.kind \in {"number", "undefined"}
PublishAlways(r) == r.kind = "number"
ShouldPublish(r) == r.kind = "number" /\ r.price > 0

\* { symbol, price, timestamp: new Date().toISOString() }
Payload(s, r) == [symbol |-> s, price |-> r, timestamp |-> "toISOString"]

\* history kept with the suspended callbacks: a callback whose timer has been
\* cleared refers to NoTimer; shrank records that a member unsubscribed meanwhile
MarkCleared(fl, ts) ==
  BagOfAll(LAMBDA f : IF [id |-> f.timer, symbol |-> f.symbol] \in ts
                      THEN f ELSE [f EXCEPT !.timer = NoTimer], fl)
MarkShrank(fl, S) ==
  BagOfAll(LAMBDA f : IF f.symbol \in S THEN [f EXCEPT !.shrank = TRUE] ELSE f, fl)

(* ---------------------------------------------------------------------- *)
(* Registry: initial state and handlers                                    *)
(* ---------------------------------------------------------------------- *)
RegInit ==
  /\ connected = {}
  /\ rooms = [s \in Symbols |-> {}]
  /\ subscribedSymbols = {}
  /\ priceUpdateIntervals = [s \in Symbols |-> NoTimer]
  /\ timers = {}
  /\ inflight = EmptyBag
  /\ quiet = {}
  /\ event = NoEvent

\* io.on('connection', socket => ...)
Connect(v) ==
  /\ v \notin connected
  /\ connected' = connected \cup {v}
  /\ event' = [NoEvent EXCEPT !.op = "connection"]
  /\ UNCHANGED <<rooms, subscribedSymbols, priceUpdateIntervals, timers, inflight, quiet, aggVars, appVars>>

\* socket.on('subscribe', async (symbol) => ...): no await inside, runs to completion
Subscribe(v, input) ==
  LET s == toUpperCase(input)
      st0 == [map |-> priceUpdateIntervals, timers |-> timers]
      st1 == IF ~Has(st0.map, s) THEN StartPriceUpdates(st0, s, Least(FreeTimerIds)) ELSE st0
  IN /\ v \in connected
     /\ FreeTimerIds # {}
     /\ subscribedSymbols' = subscribedSymbols \cup {s}
     /\ priceUpdateIntervals' = st1.map
     /\ timers' = st1.timers
     /\ rooms' = [rooms EXCEPT ![s] = @ \cup {v}]
     /\ quiet' = quiet \ {s}
     /\ event' = [NoEvent EXCEPT !.op = "subscribe", !.symbol = s,
                                 !.member = (v \in rooms[s])]
     /\ UNCHANGED <<connected, inflight, aggVars, appVars>>

\* socket.on('unsubscribe', (symbol) => ...)
Unsubscribe(v, input) ==
  LET s == toUpperCase(input)
      room == rooms[s] \ {v}
      st0 == [map |-> priceUpdateIntervals, timers |-> timers]
      st1 == IF RoomEmpty(room) THEN StopPriceUpdates(st0, s) ELSE st0
  IN /\ v \in connected
     /\ rooms' = [rooms EXCEPT ![s] = room]
     /\ priceUpdateIntervals' = st1.map
     /\ timers' = st1.timers
     /\ inflight' = MarkCleared(IF v \in rooms[s] THEN MarkShrank(inflight, {s}) ELSE inflight,
                                st1.timers)
     /\ quiet' = IF v \in rooms[s] /\ room = {} THEN quiet \cup {s} ELSE quiet
     /\ event' = [NoEvent EXCEPT !.op = "unsubscribe", !.symbol = s,
                                 !.member = (v \in rooms[s])]
     /\ UNCHANGED <<connected, subscribedSymbols, aggVars, appVars>>

\* socket.on('disconnect', ...): the handler only logs; socket.io itself has
\* removed the socket from every room it was in
Disconnect(v) ==
  /\ v \in connected
  /\ connected' = connected \ {v}
  /\ rooms' = [s \in Symbols |-> rooms[s] \ {v}]
  /\ event' = [NoEvent EXCEPT !.op = "disconnect", !.viewer = v,
                              !.left = { s \in Symbols : v \in rooms[s] }]
  /\ UNCHANGED <<subscribedSymbols, priceUpdateIntervals, timers, inflight, quiet, aggVars, appVars>>

\* the setInterval callback of startPriceUpdates, up to its await; setInterval
\* fires it whether or not an earlier call of it is still suspended
Tick(t) ==
  /\ t \in timers
  /\ BagCardinality(inflight) < MaxInFlight
  /\ inflight' = inflight (+) SetToBag({[timer |-> t.id, symbol |-> t.symbol, shrank |-> FALSE]})
  /\ event' = [NoEvent EXCEPT !.op = "tick", !.symbol = t.symbol]
  /\ UNCHANGED <<connected, rooms, subscribedSymbols, priceUpdateIntervals, timers, quiet, aggVars, appVars>>

\* the rest of the callback, once getCurrentPrice settled with r
FetchDone(f, r) ==
  /\ f \in BagToSet(inflight)
  /\ inflight' = inflight (-) SetToBag({f})
  /\ event' = [NoEvent EXCEPT
                 !.op = IF ShouldPublish(r) THEN "priceUpdate" ELSE "skip",
                 !.symbol = f.symbol, !.result = r, !.shrank = f.shrank,
                 !.cancelled = (f.timer = NoTimer),
                 !.payload = IF ShouldPublish(r) THEN Payload(f.symbol, r) ELSE NoPayload,
                 !.recipients = IF ShouldPublish(r) THEN EmitTo(rooms, connected, f.symbol) ELSE {}]
  /\ UNCHANGED <<connected, rooms, subscribedSymbols, priceUpdateIntervals, timers, quiet, aggVars, appVars>>

\* the same callback, followed one fetch further
TickOverlapping(t) ==
  /\ t \in timers
  /\ BagCardinality(inflight) <= MaxInFlight
  /\ inflight' = inflight (+) SetToBag({[timer |-> t.id, symbol |-> t.symbol, shrank |-> FALSE]})
  /\ event' = [NoEvent EXCEPT !.op = "tick", !.symbol = t.symbol]
  /\ UNCHANGED <<connected, rooms, subscribedSymbols, priceUpdateIntervals, timers, quiet, aggVars, appVars>>

RegNext ==
  \/ \E v \in Viewers : Connect(v)
  \/ \E v \in Viewers, i \in SymbolInputs : Subscribe(v, i)
  \/ \E v \in Viewers, i \in SymbolInputs : Unsubscribe(v, i)
  \/ \E v \in Viewers : Disconnect(v)
  \/ \E t \in timers : Tick(t)
  \/ \E f \in BagToSet(inflight), r \in FetchResults : FetchDone(f, r)

\* one viewer, and ticks that overlap
OverlapViewers == {Least(Viewers)}
OverlapNext ==
  \/ \E v \in OverlapViewers : Connect(v)
  \/ \E v \in OverlapViewers, i \in SymbolInputs : Subscribe(v, i)
  \/ \E v \in OverlapViewers, i \in SymbolInputs : Unsubscribe(v, i)
  \/ \E v \in OverlapViewers : Disconnect(v)
  \/ \E t \in timers : TickOverlapping(t)
  \/ \E f \in BagToSet(inflight), r \in FetchResults : FetchDone(f, r)

(* ---------------------------------------------------------------------- *)
(* Configuration and what the upstream providers answer                    *)
(* ---------------------------------------------------------------------- *)
Adapters == {"finnhub", "yahoo", "polygon", "alphavantage"}
\* values of API_PROVIDER; the service lower-cases it
ProviderInputs == {"finnhub", "Polygon", "alphavantage"}
toLowerCase(s) == IF s = "Polygon" THEN "polygon" ELSE s
\* an API key is absent, the placeholder of the .env template, or a real key
KeyValues == {"", "placeholder", "key"}
Configs == [provider : ProviderInputs, finnhub : KeyValues, polygon : KeyValues,
            alphaVantage : KeyValues]
DefaultCfg == [provider |-> "finnhub", finnhub |-> "", polygon |-> "", alphaVantage |-> ""]

\* FinnhubService / YahooFinanceService / PolygonService / AlphaVantageService .isConfigured()
IsConfiguredNever(c, a) == FALSE
IsConfiguredLoose(c, a) ==
  CASE a = "finnhub" -> c.finnhub # ""
    [] a = "yahoo" -> TRUE
    [] a = "polygon" -> c.polygon # ""
    [] a = "alphavantage" -> c.alphaVantage # ""
IsConfigured(c, a) ==
  CASE a = "finnhub" -> c.finnhub # "" /\ c.finnhub # "placeholder"
    [] a = "yahoo" -> TRUE
    [] a = "polygon" -> c.polygon # "" /\ c.polygon # "placeholder"
    [] a = "alphavantage" -> c.alphaVantage # "" /\ c.alphaVantage # "placeholder"

\* a candle: its date as the number of days before today, and its close
Candle(age) == [age |-> age, close |-> 100 + age]
\* the last choice: yesterday's market closed at the price the generated candles
\* carry here (see generateMockData below)
SeriesChoices == { <<>>, <<Candle(20)>>, <<Candle(20), Candle(3)>>,
                   <<[age |-> 1, close |-> 100]>> }

\* what an adapter call settles with: kind "throw" (rejected), "data" (a list),
\* "null", or a quote object whose price is a "number" or "undefined"
Threw == [kind |-> "throw", data |-> <<>>, price |-> 0]
Series(d) == [kind |-> "data", data |-> d, price |-> 0]
Quote(kind, p) == [kind |-> kind, data |-> <<>>, price |-> p]

\* getDataForTimeframe, getHistoricalData, getDailyBars, getDailyTimeSeries:
\* Finnhub's getCandles catches every error and returns []; the others rethrow
SeriesOutcomes(a) ==
  IF a = "finnhub" THEN { Series(d) : d \in SeriesChoices }
  ELSE {Threw} \cup { Series(d) : d \in SeriesChoices }

\* getQuote: every adapter catches its errors and returns null; Finnhub, Yahoo and
\* Alpha Vantage parse the price into a number, Polygon passes results.p through
QuoteOutcomes(a) ==
  { Quote("null", 0), Quote("number", 0), Quote("number", 150) }
    \cup (IF a = "polygon" THEN {Quote("undefined", 0)} ELSE {})

\* searchStocks: by the number of matches the upstream returns; Finnhub's adapter
\* slices to 10, Yahoo's does not; both catch their errors and return []
UpstreamMatches == {0, 1, 11}
Items(n) == [i \in 1..n |-> i]
SearchOutcomes(a) ==
  IF a = "finnhub"
  THEN { Series(Items(IF n < 10 THEN n ELSE 10)) : n \in UpstreamMatches }
  ELSE { Series(Items(n)) : n \in UpstreamMatches }

Made(a, fn, o) == [adapter |-> a, fn |-> fn, out |-> o]

\* the upstream never responds and nothing ends the request
Pending == [kind |-> "pending", data |-> <<>>, price |-> 0]
\* the axios request behind the adapter method sets a timeout: all of Finnhub's
\* do; of Yahoo's, getChartData and getQuote do, getIntradayData (intraday
\* timeframes) and searchStocks do not; Polygon's and Alpha Vantage's never do
HasTimeout(a, fn, tf) ==
  CASE a = "finnhub" -> TRUE
    [] a = "yahoo" ->
         CASE fn = "getDataForTimeframe" -> tf \notin {"1", "5", "15", "30", "60"}
           [] fn = "searchStocks" -> FALSE
           [] OTHER -> TRUE
    [] OTHER -> FALSE
\* how a call of adapter a can end: with one of the outcomes O, or not at all
Answers(O, a, fn, tf) == IF HasTimeout(a, fn, tf) THEN O ELSE O \cup {Pending}

(* ---------------------------------------------------------------------- *)
(* services/stockDataService.js: helpers                                   *)
(* ---------------------------------------------------------------------- *)
Timeframes == {"5", "1D", "1W", "zz"}
CutoffDays1D == 30
CutoffDays1W == 7
HistoricalMockDays == 365

\* day of the week of the date `age` days before a day whose getDay() is dow
Weekday(dow, age) == (dow + 7 * age - age) % 7

\* generateMockData(symbol, days): one candle per day from `days` days ago to
\* yesterday, weekends skipped; the random walk of prices is not followed here
generateMockData(days, dow) ==
  SelectSeq([i \in 1..days |-> [age |-> days - (i - 1), close |-> 100]],
            LAMBDA c : Weekday(dow, c.age) \notin {0, 6})

\* filterByTimeframe(data, timeframe): a candle dated N days ago at 00:00 is
\* older than the cutoff "now minus N days" taken later that day
filterByTimeframe(data, tf) ==
  IF Len(data) = 0 THEN data
  ELSE IF tf \in {"1", "5", "15", "30", "60"} THEN data
  ELSE IF tf = "1D" THEN SelectSeq(data, LAMBDA d : d.age < CutoffDays1D)
  ELSE IF tf = "1W" THEN SelectSeq(data, LAMBDA d : d.age < CutoffDays1W)
  ELSE data

\* d.date >= startDate && d.date <= endDate; range = <<age of startDate, age of endDate>>
RangeFilter(data, range) ==
  SelectSeq(data, LAMBDA d : d.age <= range[1] /\ d.age >= range[2])

\* if (data && data.length > 0)
UsableAlways(o) == o.kind = "data"
Usable(o) == o.kind = "data" /\ Len(o.data) > 0

\* if (quote && quote.price)
HasPriceLoose(q) == q.kind # "null"
HasPrice(q) == q.kind = "number" /\ q.price # 0

\* what the service hands back for a price
NullPrice == [kind |-> "null", price |-> 0]
PriceOf(q) == [kind |-> q.kind, price |-> q.price]

(* ---------------------------------------------------------------------- *)
(* services/stockDataService.js: one call, an await at a time              *)
(* ---------------------------------------------------------------------- *)
DayCounts == {1, 3}
\* getDay() of today: a Monday (yesterday is a Sunday) and a Wednesday
Weekdays == {1, 3}
Ranges == { <<10, 0>>, <<30, 15>>, <<500, 400>> }
Queries == {"AAPL", "A", "ZZZ"}

AggIdle == [op |-> "idle", pc |-> "idle", tf |-> "", days |-> 0, range |-> <<0, 0>>,
            query |-> "", calls |-> <<>>, src |-> "", data |-> <<>>, value |-> NullPrice,
            again |-> "no"]

\* this.cacheTimeout of the adapters, in milliseconds
cacheTimeout == 60000
\* time since the last call returned, as far as it is followed
Ages == {0, 30000, 60000, 90000}
\* operation and parameters of a call (the symbol is the same throughout)
\* getCurrentPrice takes the symbol only; tf and days are those of its inner call
KeyOf(a) ==
  IF a.op = "getCurrentPrice" THEN <<a.op, "", 0, a.range, a.query>>
  ELSE <<a.op, a.tf, a.days, a.range, a.query>>
NoLast == [key |-> <<>>, age |-> 0]
\* how a call relates to the one before it: another key ("no"), the same key
\* within cacheTimeout ("fresh"), the same key later ("stale")
Again(a) ==
  IF last.key # KeyOf(a) THEN "no"
  ELSE IF last.age < cacheTimeout THEN "fresh" ELSE "stale"
Started(a) == [a EXCEPT !.again = Again(a)]

AggInit == cfg \in Configs /\ agg = AggIdle /\ last = NoLast
AggFixed == cfg = DefaultCfg /\ agg = AggIdle /\ last = NoLast

Provider == toLowerCase(cfg.provider)

\* where getStockData's value goes: to the caller, or to line 254 of getCurrentPrice
AfterStockData == IF agg.op = "getCurrentPrice" THEN "gcp_daily" ELSE "done"

\* agg after a call of adapter a that made the service return data d
\* agg while the await of adapter a's call never settles
Blocked(a, fn, o) == [agg EXCEPT !.calls = Append(@, Made(a, fn, o)), !.pc = "blocked"]
\* where control goes when the awaited call throws: the catch block leads to pc
Uncaught(pc) == "rejected"
Caught(pc) == pc
Returned(a, fn, o, d, pc) ==
  IF o.kind = "pending" THEN Blocked(a, fn, o)
  ELSE [agg EXCEPT !.calls = Append(@, Made(a, fn, o)), !.src = a, !.data = d, !.pc = pc]
\* agg after a call whose value the service does not use
Continued(a, fn, o, pc) ==
  IF o.kind = "pending" THEN Blocked(a, fn, o)
  ELSE [agg EXCEPT !.calls = Append(@, Made(a, fn, o)),
                   !.pc = IF o.kind = "throw" THEN Caught(pc) ELSE pc]

CallGetStockData ==
  /\ agg.pc = "idle"
  /\ \E tf \in Timeframes, days \in DayCounts :
       agg' = Started([AggIdle EXCEPT !.op = "getStockData", !.pc = "gsd_finnhub",
                                      !.tf = tf, !.days = days])
  /\ last' = NoLast
  /\ UNCHANGED <<cfg, mock, regVars, appVars>>

\* getStockData, lines 50-62
GSD_Finnhub ==
  /\ agg.pc = "gsd_finnhub"
  /\ IF IsConfigured(cfg, "finnhub")
     THEN \E o \in Answers(SeriesOutcomes("finnhub"), "finnhub", "getDataForTimeframe", agg.tf) :
            LET filtered == filterByTimeframe(o.data, agg.tf)
            IN agg' = IF Usable(o) /\ Len(filtered) > 0
                      THEN Returned("finnhub", "getDataForTimeframe", o, filtered, AfterStockData)
                      ELSE Continued("finnhub", "getDataForTimeframe", o, "gsd_yahoo")
     ELSE agg' = [agg EXCEPT !.pc = "gsd_yahoo"]
  /\ UNCHANGED <<cfg, last, mock, regVars, appVars>>

\* lines 65-80: the catch block logs and falls through
GSD_Yahoo ==
  /\ agg.pc = "gsd_yahoo"
  /\ IF IsConfigured(cfg, "yahoo")
     THEN \E o \in Answers(SeriesOutcomes("yahoo"), "yahoo", "getDataForTimeframe", agg.tf) :
            LET filtered == filterByTimeframe(o.data, agg.tf)
            IN agg' = IF Usable(o) /\ Len(filtered) > 0
                      THEN Returned("yahoo", "getDataForTimeframe", o, filtered, AfterStockData)
                      ELSE Continued("yahoo", "getDataForTimeframe", o, "gsd_polygon")
     ELSE agg' = [agg EXCEPT !.pc = "gsd_polygon"]
  /\ UNCHANGED <<cfg, last, mock, regVars, appVars>>

\* lines 83-92
GSD_PolygonPrimary ==
  /\ agg.pc = "gsd_polygon"
  /\ IF Provider = "polygon" /\ IsConfigured(cfg, "polygon")
     THEN \E o \in Answers(SeriesOutcomes("polygon"), "polygon", "getDataForTimeframe", agg.tf) :
            agg' = IF Usable(o)
                   THEN Returned("polygon", "getDataForTimeframe", o,
                                 filterByTimeframe(o.data, agg.tf), AfterStockData)
                   ELSE Continued("polygon", "getDataForTimeframe", o, "gsd_alpha")
     ELSE agg' = [agg EXCEPT !.pc = "gsd_alpha"]
  /\ UNCHANGED <<cfg, last, mock, regVars, appVars>>

\* lines 94-103
GSD_AlphaPrimary ==
  /\ agg.pc = "gsd_alpha"
  /\ IF Provider = "alphavantage" /\ IsConfigured(cfg, "alphavantage")
     THEN \E o \in Answers(SeriesOutcomes("alphavantage"), "alphavantage", "getDataForTimeframe", agg.tf) :
            agg' = IF Usable(o)
                   THEN Returned("alphavantage", "getDataForTimeframe", o,
                                 filterByTimeframe(o.data, agg.tf), AfterStockData)
                   ELSE Continued("alphavantage", "getDataForTimeframe", o, "gsd_alpha2")
     ELSE agg' = [agg EXCEPT !.pc = "gsd_alpha2"]
  /\ UNCHANGED <<cfg, last, mock, regVars, appVars>>

\* lines 106-115
GSD_AlphaFallback ==
  /\ agg.pc = "gsd_alpha2"
  /\ IF Provider # "alphavantage" /\ IsConfigured(cfg, "alphavantage")
     THEN \E o \in Answers(SeriesOutcomes("alphavantage"), "alphavantage", "getDataForTimeframe", agg.tf) :
            agg' = IF Usable(o)
                   THEN Returned("alphavantage", "getDataForTimeframe", o,
                                 filterByTimeframe(o.data, agg.tf), AfterStockData)
                   ELSE Continued("alphavantage", "getDataForTimeframe", o, "gsd_polygon2")
     ELSE agg' = [agg EXCEPT !.pc = "gsd_polygon2"]
  /\ UNCHANGED <<cfg, last, mock, regVars, appVars>>

\* lines 117-126
GSD_PolygonFallback ==
  /\ agg.pc = "gsd_polygon2"
  /\ IF Provider # "polygon" /\ IsConfigured(cfg, "polygon")
     THEN \E o \in Answers(SeriesOutcomes("polygon"), "polygon", "getDataForTimeframe", agg.tf) :
            agg' = IF Usable(o)
                   THEN Returned("polygon", "getDataForTimeframe", o,
                                 filterByTimeframe(o.data, agg.tf), AfterStockData)
                   ELSE Continued("polygon", "getDataForTimeframe", o, "gsd_mock")
     ELSE agg' = [agg EXCEPT !.pc = "gsd_mock"]
  /\ UNCHANGED <<cfg, last, mock, regVars, appVars>>

\* lines 128-138: mock data, filtered unless that leaves nothing. Every adapter
\* call above sits in a try/catch whose handler does not throw, so the outer
\* catch (lines 140-170) is not entered
GSD_Mock ==
  /\ agg.pc = "gsd_mock"
  /\ \E dow \in Weekdays :
       LET mockData == generateMockData(agg.days, dow)
           filtered == filterByTimeframe(mockData, agg.tf)
       IN agg' = [agg EXCEPT !.src = "mock", !.pc = AfterStockData,
                             !.data = IF Len(filtered) > 0 THEN filtered ELSE mockData]
  /\ UNCHANGED <<cfg, last, mock, regVars, appVars>>

CallGetCurrentPrice ==
  /\ agg.pc = "idle"
  /\ agg' = Started([AggIdle EXCEPT !.op = "getCurrentPrice", !.pc = "gcp_finnhub"])
  /\ last' = NoLast
  /\ UNCHANGED <<cfg, mock, regVars, appVars>>

\* getCurrentPrice, lines 223-228
GCP_Finnhub ==
  /\ agg.pc = "gcp_finnhub"
  /\ IF IsConfigured(cfg, "finnhub")
     THEN \E q \in Answers(QuoteOutcomes("finnhub"), "finnhub", "getQuote", agg.tf) :
            agg' = IF HasPrice(q)
                   THEN [Returned("finnhub", "getQuote", q, <<>>, "done")
                           EXCEPT !.value = PriceOf(q)]
                   ELSE Continued("finnhub", "getQuote", q, "gcp_yahoo")
     ELSE agg' = [agg EXCEPT !.pc = "gcp_yahoo"]
  /\ UNCHANGED <<cfg, last, mock, regVars, appVars>>

\* lines 231-240
GCP_Yahoo ==
  /\ agg.pc = "gcp_yahoo"
  /\ IF IsConfigured(cfg, "yahoo")
     THEN \E q \in Answers(QuoteOutcomes("yahoo"), "yahoo", "getQuote", agg.tf) :
            agg' = IF HasPrice(q)
                   THEN [Returned("yahoo", "getQuote", q, <<>>, "done")
                           EXCEPT !.value = PriceOf(q)]
                   ELSE Continued("yahoo", "getQuote", q, "gcp_polygon")
     ELSE agg' = [agg EXCEPT !.pc = "gcp_polygon"]
  /\ UNCHANGED <<cfg, last, mock, regVars, appVars>>

\* lines 243-246: if (quote) return quote.price
GCP_Polygon ==
  /\ agg.pc = "gcp_polygon"
  /\ IF Provider = "polygon" /\ IsConfigured(cfg, "polygon")
     THEN \E q \in Answers(QuoteOutcomes("polygon"), "polygon", "getQuote", agg.tf) :
            agg' = IF q.kind # "null"
                   THEN [Returned("polygon", "getQuote", q, <<>>, "done")
                           EXCEPT !.value = PriceOf(q)]
                   ELSE Continued("polygon", "getQuote", q, "gcp_alpha")
     ELSE agg' = [agg EXCEPT !.pc = "gcp_alpha"]
  /\ UNCHANGED <<cfg, last, mock, regVars, appVars>>

\* lines 248-251: if (quote) return quote.price; line 254 starts getStockData(symbol, '1D', 1)
GCP_Alpha ==
  /\ agg.pc = "gcp_alpha"
  /\ LET daily == [agg EXCEPT !.tf = "1D", !.days = 1, !.pc = "gsd_finnhub"]
     IN IF Provider = "alphavantage" /\ IsConfigured(cfg, "alphavantage")
        THEN \E q \in Answers(QuoteOutcomes("alphavantage"), "alphavantage", "getQuote", agg.tf) :
               agg' = IF q.kind # "null"
                      THEN [Returned("alphavantage", "getQuote", q, <<>>, "done")
                              EXCEPT !.value = PriceOf(q)]
                      ELSE [daily EXCEPT !.calls = Append(@, Made("alphavantage", "getQuote", q))]
        ELSE agg' = daily
  /\ UNCHANGED <<cfg, last, mock, regVars, appVars>>

\* lines 254-259: the close of the last candle, or null
GCP_Daily ==
  /\ agg.pc = "gcp_daily"
  /\ agg' = [agg EXCEPT !.pc = "done",
                        !.value = IF Len(agg.data) > 0
                                  THEN [kind |-> "number", price |-> agg.data[Len(agg.data)].close]
                                  ELSE NullPrice]
  /\ UNCHANGED <<cfg, last, mock, regVars, appVars>>

CallGetHistoricalData ==
  /\ agg.pc = "idle"
  /\ \E range \in Ranges :
       agg' = Started([AggIdle EXCEPT !.op = "getHistoricalData", !.pc = "ghd_finnhub",
                                      !.range = range])
  /\ last' = NoLast
  /\ UNCHANGED <<cfg, mock, regVars, appVars>>

\* getHistoricalData, lines 178-183 (an error here would reach the catch block)
GHD_Finnhub ==
  /\ agg.pc = "ghd_finnhub"
  /\ IF IsConfigured(cfg, "finnhub")
     THEN \E o \in Answers(SeriesOutcomes("finnhub"), "finnhub", "getHistoricalData", agg.tf) :
            agg' = IF o.kind = "throw" THEN Continued("finnhub", "getHistoricalData", o, "ghd_mock")
                   ELSE IF Usable(o)
                   THEN Returned("finnhub", "getHistoricalData", o, o.data, "done")
                   ELSE Continued("finnhub", "getHistoricalData", o, "ghd_yahoo")
     ELSE agg' = [agg EXCEPT !.pc = "ghd_yahoo"]
  /\ UNCHANGED <<cfg, last, mock, regVars, appVars>>

\* lines 186-195
GHD_Yahoo ==
  /\ agg.pc = "ghd_yahoo"
  /\ IF IsConfigured(cfg, "yahoo")
     THEN \E o \in Answers(SeriesOutcomes("yahoo"), "yahoo", "getHistoricalData", agg.tf) :
            agg' = IF Usable(o)
                   THEN Returned("yahoo", "getHistoricalData", o, o.data, "done")
                   ELSE Continued("yahoo", "getHistoricalData", o, "ghd_polygon")
     ELSE agg' = [agg EXCEPT !.pc = "ghd_polygon"]
  /\ UNCHANGED <<cfg, last, mock, regVars, appVars>>

\* lines 198-200: return await polygonService.getDailyBars(...)
GHD_Polygon ==
  /\ agg.pc = "ghd_polygon"
  /\ IF Provider = "polygon" /\ IsConfigured(cfg, "polygon")
     THEN \E o \in Answers(SeriesOutcomes("polygon"), "polygon", "getDailyBars", agg.tf) :
            agg' = IF o.kind = "throw" THEN Continued("polygon", "getDailyBars", o, "ghd_mock")
                   ELSE Returned("polygon", "getDailyBars", o, o.data, "done")
     ELSE agg' = [agg EXCEPT !.pc = "ghd_alpha"]
  /\ UNCHANGED <<cfg, last, mock, regVars, appVars>>

\* lines 202-205
GHD_Alpha ==
  /\ agg.pc = "ghd_alpha"
  /\ IF Provider = "alphavantage" /\ IsConfigured(cfg, "alphavantage")
     THEN \E o \in Answers(SeriesOutcomes("alphavantage"), "alphavantage", "getDailyTimeSeries", agg.tf) :
            agg' = IF o.kind = "throw"
                   THEN Continued("alphavantage", "getDailyTimeSeries", o, "ghd_mock")
                   ELSE Returned("alphavantage", "getDailyTimeSeries", o,
                                 RangeFilter(o.data, agg.range), "done")
     ELSE agg' = [agg EXCEPT !.pc = "ghd_mock"]
  /\ UNCHANGED <<cfg, last, mock, regVars, appVars>>

\* lines 207-209, and the same in the catch block, lines 211-215
GHD_Mock ==
  /\ agg.pc = "ghd_mock"
  /\ \E dow \in Weekdays :
       agg' = [agg EXCEPT !.src = "mock", !.pc = "done",
                 !.data = RangeFilter(generateMockData(HistoricalMockDays, dow), agg.range)]
  /\ UNCHANGED <<cfg, last, mock, regVars, appVars>>

CallSearchStocks ==
  /\ agg.pc = "idle"
  /\ \E query \in Queries :
       agg' = Started([AggIdle EXCEPT !.op = "searchStocks", !.pc = "ss_finnhub",
                                      !.query = query])
  /\ last' = NoLast
  /\ UNCHANGED <<cfg, mock, regVars, appVars>>

\* searchStocks, lines 270-275
SS_Finnhub ==
  /\ agg.pc = "ss_finnhub"
  /\ IF IsConfigured(cfg, "finnhub")
     THEN \E o \in Answers(SearchOutcomes("finnhub"), "finnhub", "searchStocks", agg.tf) :
            agg' = IF Usable(o)
                   THEN Returned("finnhub", "searchStocks", o, o.data, "done")
                   ELSE Continued("finnhub", "searchStocks", o, "ss_yahoo")
     ELSE agg' = [agg EXCEPT !.pc = "ss_yahoo"]
  /\ UNCHANGED <<cfg, last, mock, regVars, appVars>>

\* lines 278-287
SS_Yahoo ==
  /\ agg.pc = "ss_yahoo"
  /\ IF IsConfigured(cfg, "yahoo")
     THEN \E o \in Answers(SearchOutcomes("yahoo"), "yahoo", "searchStocks", agg.tf) :
            agg' = IF Usable(o)
                   THEN Returned("yahoo", "searchStocks", o, o.data, "done")
                   ELSE Continued("yahoo", "searchStocks", o, "ss_common")
     ELSE agg' = [agg EXCEPT !.pc = "ss_common"]
  /\ UNCHANGED <<cfg, last, mock, regVars, appVars>>

\* lines 289-313: the built-in list, by the number of its entries whose symbol
\* or name contains the query
CommonMatches(query) ==
  CASE query = "AAPL" -> 1 [] query = "A" -> 7 [] OTHER -> 0
SS_Common ==
  /\ agg.pc = "ss_common"
  /\ agg' = IF ~IsConfigured(cfg, "finnhub") /\ ~IsConfigured(cfg, "yahoo")
            THEN [agg EXCEPT !.src = "common", !.pc = "done",
                             !.data = Items(CommonMatches(agg.query))]
            ELSE [agg EXCEPT !.src = "none", !.pc = "done", !.data = <<>>]
  /\ UNCHANGED <<cfg, last, mock, regVars, appVars>>

\* the caller has the value; the service keeps nothing between calls
Return ==
  /\ agg.pc = "done"
  /\ agg' = AggIdle
  /\ last' = [key |-> KeyOf(agg), age |-> 0]
  /\ UNCHANGED <<cfg, mock, regVars, appVars>>

\* time passes between two calls
Wait ==
  /\ agg.pc = "idle"
  /\ last # NoLast
  /\ \E age \in Ages : age > last.age /\ last' = [last EXCEPT !.age = age]
  /\ UNCHANGED <<cfg, agg, mock, regVars, appVars>>

AggNext ==
  \/ CallGetStockData
  \/ GSD_Finnhub
  \/ GSD_Yahoo
  \/ GSD_PolygonPrimary
  \/ GSD_AlphaPrimary
  \/ GSD_AlphaFallback
  \/ GSD_PolygonFallback
  \/ GSD_Mock
  \/ CallGetCurrentPrice
  \/ GCP_Finnhub
  \/ GCP_Yahoo
  \/ GCP_Polygon
  \/ GCP_Alpha
  \/ GCP_Daily
  \/ CallGetHistoricalData
  \/ GHD_Finnhub
  \/ GHD_Yahoo
  \/ GHD_Polygon
  \/ GHD_Alpha
  \/ GHD_Mock
  \/ CallSearchStocks
  \/ SS_Finnhub
  \/ SS_Yahoo
  \/ SS_Common
  \/ Return
  \/ Wait

(* ---------------------------------------------------------------------- *)
(* generateMockData: the prices of the candles, in thousandths              *)
(* ---------------------------------------------------------------------- *)
MaxMockDays == 145

\* basePrice = 100 + Math.random() * 50
BasePrices == {100000, 149999}
\* change = (Math.random() - 0.45) * 2
Changes == {-900, 1099}
\* (Math.random() - 0.5) * 2
OpenOffsets == {-1000, 996}
\* Math.random() * 3, for the high and for the low
Spreads == {0, 2994}
\* getDay() of startDate
StartDays == {4}
PriceFloor == 10000

Max(a, b) == IF a >= b THEN a ELSE b
Min(a, b) == IF a <= b THEN a ELSE b
\* Math.max(10, currentPrice + change)
NoFloor(p) == p
FloorPrice(p) == Max(PriceFloor, p)
\* parseFloat(x.toFixed(2)), for x >= 0
Round2(x) == ((x + 5) \div 10) * 10

\* Days are counted from startDate (day 0, now is day `days`) in local time, as
\* setDate and getDay count them. The date of a candle is the day toISOString
\* names, which is the UTC day: the local day plus shift, where shift is -1
\* east of UTC early in the day, +1 west of UTC late in the day, 0 otherwise.
UtcShifts == {-1, 0, 1}
\* before the first candle: earlier than every date
NoDate == -2
NoCandle == [open |-> 0, high |-> 0, low |-> 0, close |-> 0, date |-> NoDate]
\* count is data.length, prev the date of the candle pushed before this one
MockIdle == [i |-> 0, start |-> 0, cur |-> 0, pushed |-> FALSE, candle |-> NoCandle,
             days |-> 0, shift |-> 0, count |-> 0, prev |-> NoDate]

MockInit ==
  mock \in { [MockIdle EXCEPT !.start = d, !.cur = b, !.days = MaxMockDays] :
               d \in StartDays, b \in BasePrices }

\* date.getDay(), and what day of the week the toISOString date is
GetDay(m) == (m.start + m.i) % 7
IsoDate(m) == m.i + m.shift
IsoDay(m, date) == (m.start + 7 + date) % 7
\* if (date.getDay() === 0 || date.getDay() === 6) continue
IsWeekend(m) == GetDay(m) \in {0, 6}

\* one iteration of the loop on a weekend
MockSkipDay ==
  /\ mock.i < mock.days
  /\ IsWeekend(mock)
  /\ mock' = [mock EXCEPT !.i = @ + 1, !.pushed = FALSE]
  /\ UNCHANGED <<cfg, agg, last, regVars, appVars>>

\* one iteration of the loop on a business day: lines 21-37
MockPushDay ==
  /\ mock.i < mock.days
  /\ ~IsWeekend(mock)
  /\ \E change \in Changes, off \in OpenOffsets, up \in Spreads, down \in Spreads :
       LET currentPrice == FloorPrice(mock.cur + change)
           open == currentPrice + off
           high == Max(open, currentPrice) + up
           low == Min(open, currentPrice) - down
       IN mock' = [mock EXCEPT !.i = @ + 1, !.cur = currentPrice, !.pushed = TRUE,
                               !.count = @ + 1, !.prev = mock.candle.date,
                               !.candle = [open |-> Round2(open), high |-> Round2(high),
                                           low |-> Round2(low), close |-> Round2(currentPrice),
                                           date |-> IsoDate(mock)]]
  /\ UNCHANGED <<cfg, agg, last, regVars, appVars>>

MockNext ==
  \/ MockSkipDay
  \/ MockPushDay

(* ---------------------------------------------------------------------- *)
(* public/app.js: symbol selection, views and subscriptions of one browser  *)
(* ---------------------------------------------------------------------- *)
MaxTasks == 2
ClientSymbols == {"AAPL", "MSFT"}

\* socket.emit('subscribe', s) and socket.emit('unsubscribe', s): the server
\* handles the messages of one socket in the order sent, so the rooms the socket
\* is in are followed here as the messages are sent
EmitSubscribe(S, s) == S \cup {s}
EmitNothing(S, s) == S
EmitUnsubscribe(S, s) == S \ {s}

\* a pending await: of updateHeader ("header"), of the fetch in loadChartData
\* ("chart"), of getCurrentPrice in loadChartData ("price"), of the fetch in
\* loadHistoricalData ("hist"); then says that the caller of loadChartData
\* emits a subscribe once it has returned (selectSymbol, DOMContentLoaded)
Task(pc, then) == [pc |-> pc, then |-> then]
\* was: history, the symbols the client has been subscribed to
ClientIdle == [currentSymbol |-> "", isHistoricalView |-> FALSE, subs |-> {},
               was |-> {}, tasks |-> EmptyBag]
\* DOMContentLoaded, lines 11-28, at await updateHeader() of line 23
ClientInit ==
  client = [ClientIdle EXCEPT !.currentSymbol = "AAPL",
                              !.tasks = SetToBag({Task("header", TRUE)})]

Sent(c, S) == [c EXCEPT !.subs = S, !.was = @ \cup S]
Spawn(c, t) == [c EXCEPT !.tasks = @ (+) SetToBag({t})]
Finish(c, t) == [c EXCEPT !.tasks = @ (-) SetToBag({t})]
Move(c, t, pc) == Spawn(Finish(c, t), Task(pc, t.then))
\* loadChartData up to its first await, lines 456-466
StartChart(c) == Sent(c, EmitUnsubscribe(c.subs, c.currentSymbol))
\* loadChartData has returned to its caller: selectSymbol lines 160-163,
\* DOMContentLoaded lines 25-27
ChartReturned(c, t) ==
  Finish(IF t.then THEN Sent(c, EmitSubscribe(c.subs, c.currentSymbol)) ELSE c, t)

\* selectSymbol(symbol, searchResults), lines 151-158, up to await updateHeader()
SelectSymbol(s) ==
  /\ BagCardinality(client.tasks) < MaxTasks
  /\ client' = Spawn([Sent(client, EmitUnsubscribe(client.subs, client.currentSymbol))
                        EXCEPT !.currentSymbol = s],
                     Task("header", TRUE))
  /\ UNCHANGED <<regVars, aggVars, portfolio>>

\* updateHeader() has returned; loadChartData() starts
HeaderDone(t) ==
  /\ t \in BagToSet(client.tasks) /\ t.pc = "header"
  /\ client' = Move(StartChart(client), t, "chart")
  /\ UNCHANGED <<regVars, aggVars, portfolio>>

\* the fetch of loadChartData has settled: lines 468-523; "error" is a response
\* that is not ok or a rejected fetch, "empty" a response without data
ChartOutcomes == {"ok", "empty", "error"}
ChartDone(t, o) ==
  /\ t \in BagToSet(client.tasks) /\ t.pc = "chart"
  /\ client' = IF o = "ok" /\ ~client.isHistoricalView
                THEN Move(client, t, "price")
                ELSE ChartReturned(client, t)
  /\ UNCHANGED <<regVars, aggVars, portfolio>>

\* getCurrentPrice of line 508 has returned (it never rejects): lines 509-523
PriceDone(t) ==
  /\ t \in BagToSet(client.tasks) /\ t.pc = "price"
  /\ client' = ChartReturned(IF ~client.isHistoricalView
                              THEN Sent(client, EmitSubscribe(client.subs, client.currentSymbol))
                              ELSE client, t)
  /\ UNCHANGED <<regVars, aggVars, portfolio>>

\* click on a timeframe button, lines 390-399
ClickTimeframe ==
  /\ BagCardinality(client.tasks) < MaxTasks
  /\ client' = Spawn(StartChart([client EXCEPT !.isHistoricalView = FALSE]),
                     Task("chart", FALSE))
  /\ UNCHANGED <<regVars, aggVars, portfolio>>

\* click on viewHistoricalBtn with a date chosen, lines 410-419
ClickHistorical ==
  /\ BagCardinality(client.tasks) < MaxTasks
  /\ client' = Spawn([client EXCEPT !.isHistoricalView = TRUE], Task("hist", FALSE))
  /\ UNCHANGED <<regVars, aggVars, portfolio>>

\* the fetch of loadHistoricalData has settled: lines 551-571
HistOutcomes == {"ok", "error"}
HistDone(t, o) ==
  /\ t \in BagToSet(client.tasks) /\ t.pc = "hist"
  /\ client' = Finish(IF o = "ok"
                       THEN Sent(client, EmitUnsubscribe(client.subs, client.currentSymbol))
                       ELSE client, t)
  /\ UNCHANGED <<regVars, aggVars, portfolio>>

\* click on viewLiveBtn, lines 422-434: loadChartData() is not awaited
ClickLive ==
  /\ BagCardinality(client.tasks) < MaxTasks
  /\ LET c == StartChart([client EXCEPT !.isHistoricalView = FALSE])
     IN client' = Spawn(Sent(c, EmitSubscribe(c.subs, c.currentSymbol)), Task("chart", FALSE))
  /\ UNCHANGED <<regVars, aggVars, portfolio>>

ClientNext ==
  \/ \E s \in ClientSymbols : SelectSymbol(s)
  \/ \E t \in BagToSet(client.tasks) : HeaderDone(t)
  \/ \E t \in BagToSet(client.tasks), o \in ChartOutcomes : ChartDone(t, o)
  \/ \E t \in BagToSet(client.tasks) : PriceDone(t)
  \/ ClickTimeframe
  \/ ClickHistorical
  \/ \E t \in BagToSet(client.tasks), o \in HistOutcomes : HistDone(t, o)
  \/ ClickLive

(* ---------------------------------------------------------------------- *)
(* server.js: the portfolio and POST /api/trade                             *)
(* ---------------------------------------------------------------------- *)
MaxTrades == 3
\* cash: 10000
InitialCash == 10000
TradeSymbols == {"AAPL"}
\* req.body: a missing field is "" or 0; quantities are counted in halves of a
\* share (-1, 0.5 and 1 share), prices in dollars
Bodies == [symbol : TradeSymbols \cup {""}, action : {"buy", "sell", "hold", ""},
           quantity : {-2, 0, 1, 2}, price : {-20000, 0, 100, 6000}]
\* quantity * price, in dollars
TotalCost(b) == (b.quantity * b.price) \div 2

\* status: of the last response; keys: the symbols holdings has an entry for
Portfolio0 == [cash |-> InitialCash, keys |-> {}, holdings |-> [s \in TradeSymbols |-> 0],
               trades |-> <<>>, status |-> 0]
TradeRecord(b) == [symbol |-> b.symbol, action |-> b.action, quantity |-> b.quantity,
                   price |-> b.price, totalCost |-> TotalCost(b)]
\* return res.status(400).json(...)
Rejected(p) == [p EXCEPT !.status = 400]
\* portfolio.trades.push({...}); res.json(portfolio)
AcceptedUnlogged(p, b) == [p EXCEPT !.status = 200]
Accepted(p, b) == [p EXCEPT !.status = 200, !.trades = Append(@, TradeRecord(b))]

\* app.post('/api/trade', ...), lines 172-212
PostTrade(p, b) ==
  IF b.symbol = "" \/ b.action = "" \/ b.quantity = 0 \/ b.price = 0
  THEN Rejected(p)
  ELSE IF b.action = "buy"
  THEN IF p.cash < TotalCost(b)
       THEN Rejected(p)
       ELSE Accepted([p EXCEPT !.cash = @ - TotalCost(b),
                               !.holdings[b.symbol] = @ + b.quantity,
                               !.keys = @ \cup {b.symbol}], b)
  ELSE IF b.action = "sell"
  THEN IF p.holdings[b.symbol] = 0 \/ p.holdings[b.symbol] < b.quantity
       THEN Rejected(p)
       ELSE Accepted([p EXCEPT !.cash = @ + TotalCost(b),
                               !.holdings[b.symbol] = @ - b.quantity,
                               !.keys = IF p.holdings[b.symbol] - b.quantity = 0
                                        THEN @ \ {b.symbol} ELSE @], b)
  ELSE Rejected(p)

Trade(b) ==
  /\ Len(portfolio.trades) < MaxTrades
  /\ portfolio' = PostTrade(portfolio, b)
  /\ UNCHANGED <<regVars, aggVars, client>>

PortfolioNext == \E b \in Bodies : Trade(b)

AppIdle == client = ClientIdle /\ portfolio = Portfolio0

Init == RegInit /\ AggFixed /\ mock = MockIdle /\ AppIdle
Next == RegNext
Spec == Init /\ [][Next]_vars

(* ---------------------------------------------------------------------- *)
(* Properties of the registry and of the polling loops                     *)
(* ---------------------------------------------------------------------- *)
\* a polling loop exists for s: it is registered, or its timer is still active
LoopExists(s) == priceUpdateIntervals[s] # NoTimer \/ TimersOf(timers, s) # {}
\* the loop of s is registered and its timer is the one active timer of s
LoopRuns(s) ==
  /\ priceUpdateIntervals[s] # NoTimer
  /\ TimersOf(timers, s) = {[id |-> priceUpdateIntervals[s], symbol |-> s]}
Positive(r) == r.kind = "number" /\ r.price > 0

\* C1: after any sequence of subscribe, unsubscribe and disconnect, a symbol
\* whose viewer set is not empty has exactly one registered loop with an active
\* timer, and a symbol whose viewer set is empty has none.
C1_LoopIffViewers ==
  \A s \in Symbols :
    /\ rooms[s] # {} => LoopRuns(s)
    /\ rooms[s] = {} => ~LoopExists(s)

\* C2: a disconnect removes the viewer from every viewer set it was in and
\* cancels the loop of every set that became empty.
C2_DisconnectCleans ==
  event.op = "disconnect" =>
    /\ \A s \in Symbols : event.viewer \notin rooms[s]
    /\ \A s \in event.left : rooms[s] = {} => ~LoopExists(s)

\* C3: at most one interval timer is active per symbol, and every active timer
\* is the one registered for its symbol: no double start, no orphaned timer.
C3_OneTimerPerSymbol ==
  /\ \A s \in Symbols : Cardinality(TimersOf(timers, s)) <= 1
  /\ \A t \in timers : priceUpdateIntervals[t.symbol] = t.id
\* a second viewer subscribed to a symbol whose loop was already running
C3_Witness ==
  /\ event.op = "subscribe" /\ ~event.member
  /\ Cardinality(rooms[event.symbol]) >= 2
  /\ LoopRuns(event.symbol)

\* C4: a subscribe from a viewer who is already in the symbol's set changes
\* neither the set nor the loops: same members, no second timer.
C4_ResubscribeNoOp ==
  [][event'.op = "subscribe" /\ event'.member =>
       /\ rooms' = rooms
       /\ subscribedSymbols' = subscribedSymbols
       /\ priceUpdateIntervals' = priceUpdateIntervals
       /\ timers' = timers]_vars
C4_Witness ==
  /\ event.op = "subscribe" /\ event.member
  /\ LoopRuns(event.symbol)

\* C5: when the last viewer of a symbol unsubscribes, the loop is cancelled in
\* that same step, and no tick of that symbol starts until someone subscribes.
C5_LastUnsubscribeStops ==
  /\ event.op = "unsubscribe" /\ event.member /\ rooms[event.symbol] = {}
       => ~LoopExists(event.symbol)
  /\ \A s \in quiet : ~LoopExists(s)
  /\ event.op = "tick" => event.symbol \notin quiet
\* the last viewer of a symbol has just unsubscribed while the other symbol is polled
C5_Witness ==
  /\ event.op = "unsubscribe" /\ event.member /\ rooms[event.symbol] = {}
  /\ event.symbol \in quiet
  /\ timers # {}

\* C6: when one of several viewers unsubscribes, the loop keeps running, and a
\* tick that ends with a price afterwards is delivered to each remaining viewer.
C6_OthersKeepReceiving ==
  /\ event.op = "unsubscribe" /\ event.member /\ rooms[event.symbol] # {}
       => LoopRuns(event.symbol)
  /\ \A s \in Symbols : rooms[s] # {} => LoopRuns(s)
  /\ event.op \in {"priceUpdate", "skip"} /\ Positive(event.result)
       => event.op = "priceUpdate" /\ rooms[event.symbol] \subseteq event.recipients
\* a tick ended with a price after a member had unsubscribed, and reached the rest
C6_Witness ==
  /\ event.op = "priceUpdate" /\ event.shrank
  /\ event.recipients # {}
  /\ LoopRuns(event.symbol)

\* C7: an unsubscribe from a viewer who is not in the symbol's set changes
\* neither the sets nor the loop registrations, in every reachable state.
C7_StrangerUnsubscribeNoOp ==
  [][event'.op = "unsubscribe" /\ ~event'.member =>
       /\ rooms' = rooms
       /\ priceUpdateIntervals' = priceUpdateIntervals
       /\ timers' = timers]_vars

\* C8: a priceUpdate goes to exactly the members of the symbol's room at the
\* moment it is published, never to a viewer who is not subscribed.
C8_OnlyMembersReceive ==
  event.op = "priceUpdate" => event.recipients = rooms[event.symbol]
\* a price was published to the room after a member had unsubscribed during the
\* fetch, while a connected viewer was not in the room
C8_Witness ==
  /\ event.op = "priceUpdate" /\ event.shrank
  /\ event.recipients # {}
  /\ connected \ event.recipients # {}

\* C9: a tick whose fetch throws or yields null or a non-positive price
\* publishes nothing and leaves the loop registered; a loop is removed only by
\* an unsubscribe that finds the room empty, never by a tick.
C9_TickNeverStopsLoop ==
  [][/\ event'.op \in {"tick", "skip", "priceUpdate"}
          => priceUpdateIntervals' = priceUpdateIntervals /\ timers' = timers
     /\ event'.op \in {"skip", "priceUpdate"} /\ ~Positive(event'.result)
          => event'.op = "skip" /\ event'.recipients = {}
     /\ \A s \in Symbols :
          priceUpdateIntervals[s] # NoTimer /\ priceUpdateIntervals'[s] = NoTimer
            => event'.op = "unsubscribe" /\ event'.symbol = s /\ rooms'[s] = {}]_vars
\* a fetch failed for a symbol that has viewers, and its loop is still running
C9_Witness ==
  /\ event.op = "skip" /\ ~Positive(event.result)
  /\ rooms[event.symbol] # {}
  /\ LoopRuns(event.symbol)

(* ---------------------------------------------------------------------- *)
(* Properties of the provider fallback chain                               *)
(* ---------------------------------------------------------------------- *)
Step(a, fn) == [adapter |-> a, fn |-> fn]
Opt(b, step) == IF b THEN <<step>> ELSE <<>>

\* the adapters an operation consults under the configuration, in source order
StockDataChain ==
  Opt(IsConfigured(cfg, "finnhub"), Step("finnhub", "getDataForTimeframe"))
    \o <<Step("yahoo", "getDataForTimeframe")>>
    \o Opt(Provider = "polygon" /\ IsConfigured(cfg, "polygon"),
           Step("polygon", "getDataForTimeframe"))
    \o Opt(Provider = "alphavantage" /\ IsConfigured(cfg, "alphavantage"),
           Step("alphavantage", "getDataForTimeframe"))
    \o Opt(Provider # "alphavantage" /\ IsConfigured(cfg, "alphavantage"),
           Step("alphavantage", "getDataForTimeframe"))
    \o Opt(Provider # "polygon" /\ IsConfigured(cfg, "polygon"),
           Step("polygon", "getDataForTimeframe"))
CurrentPriceChain ==
  Opt(IsConfigured(cfg, "finnhub"), Step("finnhub", "getQuote"))
    \o <<Step("yahoo", "getQuote")>>
    \o Opt(Provider = "polygon" /\ IsConfigured(cfg, "polygon"), Step("polygon", "getQuote"))
    \o Opt(Provider = "alphavantage" /\ IsConfigured(cfg, "alphavantage"),
           Step("alphavantage", "getQuote"))
    \o StockDataChain
HistoricalDataChain ==
  Opt(IsConfigured(cfg, "finnhub"), Step("finnhub", "getHistoricalData"))
    \o <<Step("yahoo", "getHistoricalData")>>
    \o Opt(Provider = "polygon" /\ IsConfigured(cfg, "polygon"), Step("polygon", "getDailyBars"))
    \o Opt(Provider = "alphavantage" /\ IsConfigured(cfg, "alphavantage"),
           Step("alphavantage", "getDailyTimeSeries"))
SearchChain ==
  Opt(IsConfigured(cfg, "finnhub"), Step("finnhub", "searchStocks"))
    \o <<Step("yahoo", "searchStocks")>>
ChainOf(op) ==
  CASE op = "getStockData" -> StockDataChain
    [] op = "getCurrentPrice" -> CurrentPriceChain
    [] op = "getHistoricalData" -> HistoricalDataChain
    [] op = "searchStocks" -> SearchChain
    [] OTHER -> <<>>

\* the adapter call threw, or resolved to null or to an empty list
Failed(c) ==
  \/ c.out.kind \in {"throw", "null"}
  \/ c.out.kind = "data" /\ Len(c.out.data) = 0
\* what the operation makes of the list an adapter call resolved to
Processed(c) ==
  IF c.fn = "getDataForTimeframe" THEN filterByTimeframe(c.out.data, agg.tf)
  ELSE IF c.fn = "getDailyTimeSeries" THEN RangeFilter(c.out.data, agg.range)
  ELSE c.out.data
\* the adapter call gave a usable result: a positive price, a non-empty list
Succeeded(c) ==
  IF c.fn = "getQuote" THEN Positive(c.out)
  ELSE c.out.kind = "data" /\ Len(Processed(c)) > 0
\* the operation returned the result of adapter call c
ReturnedResultOf(c) ==
  /\ agg.src = c.adapter
  /\ IF c.fn = "getQuote" THEN agg.value = PriceOf(c.out)
     ELSE /\ agg.data = Processed(c)
          /\ agg.op = "getCurrentPrice" =>
               agg.value = [kind |-> "number", price |-> Processed(c)[Len(Processed(c))].close]

\* C10: in getStockData, getCurrentPrice, getHistoricalData and searchStocks the
\* adapters are consulted in source order; when the earlier ones fail (throw,
\* null or empty) the next one is consulted, and when one then succeeds with a
\* usable result the operation returns that result and consults no adapter after it.
C10_FirstSuccessWins ==
  agg.pc = "done" =>
    LET chain == ChainOf(agg.op)
        n == Len(agg.calls)
    IN /\ n <= Len(chain)
       /\ \A i \in 1..n : Step(agg.calls[i].adapter, agg.calls[i].fn) = chain[i]
       /\ \A i \in 1..n :
            (\A j \in 1..(i - 1) : Failed(agg.calls[j])) /\ Succeeded(agg.calls[i])
              => i = n /\ ReturnedResultOf(agg.calls[i])
       /\ \A i \in 1..n :
            (\A j \in 1..i : Failed(agg.calls[j])) /\ i < Len(chain) => i < n
\* three adapters were consulted, the first two failed, the third one's result came back
C10_Witness ==
  /\ agg.pc = "done"
  /\ Len(agg.calls) >= 3
  /\ \A j \in 1..(Len(agg.calls) - 1) : Failed(agg.calls[j])
  /\ Succeeded(agg.calls[Len(agg.calls)])
  /\ ReturnedResultOf(agg.calls[Len(agg.calls)])

\* every adapter whose isConfigured() is true has been consulted in this call
AllConfiguredTried ==
  \A a \in Adapters :
    IsConfigured(cfg, a) => \E i \in 1..Len(agg.calls) : agg.calls[i].adapter = a

\* C11: getStockData and getHistoricalData return mock data only after every
\* configured adapter has been consulted and none of them gave a usable result.
C11_MockIsLastResort ==
  agg.pc = "done" /\ agg.op \in {"getStockData", "getHistoricalData"} /\ agg.src = "mock"
    => /\ AllConfiguredTried
       /\ \A i \in 1..Len(agg.calls) : ~Succeeded(agg.calls[i])

\* C12: when every adapter fails, getStockData (any timeframe, any day count)
\* and getHistoricalData (any date range) still return a non-empty series.
C12_NeverNoData ==
  /\ agg.pc = "done"
  /\ agg.op \in {"getStockData", "getHistoricalData"}
  /\ \A i \in 1..Len(agg.calls) : Failed(agg.calls[i])
  => Len(agg.data) > 0

\* C13: every candle generateMockData pushes has high >= max(open, close),
\* low <= min(open, close) and no negative price after rounding, and each close
\* comes from the previous one by one bounded change with a floor of 10.
C13_MockCandlesConsistent ==
  [][mock'.pushed =>
       /\ mock'.candle.high >= Max(mock'.candle.open, mock'.candle.close)
       /\ mock'.candle.low <= Min(mock'.candle.open, mock'.candle.close)
       /\ mock'.candle.low >= 0
       /\ mock'.candle.close = Round2(mock'.cur)
       /\ mock'.cur >= PriceFloor
       /\ \/ mock'.cur - mock.cur \in -900..1099
          \/ mock'.cur = PriceFloor /\ mock.cur - 900 <= PriceFloor]_vars
\* the walk has come down to the floor, and the candle opened below its close
C13_Witness ==
  /\ mock.pushed
  /\ mock.cur = PriceFloor
  /\ mock.candle.open < mock.candle.close
  /\ mock.candle.low < mock.candle.open

\* C14: a fetch of the same operation and parameters as the one before it,
\* made within the cache TTL, is answered without any adapter call.
C14_CacheHit ==
  agg.pc = "done" /\ agg.again = "fresh" => Len(agg.calls) = 0

\* what the call returns was built from the last adapter call of this very call
FromThisFetch ==
  agg.src \in Adapters =>
    /\ Len(agg.calls) > 0
    /\ LET c == agg.calls[Len(agg.calls)]
       IN /\ c.adapter = agg.src
          /\ c.fn = "getQuote" => agg.value = PriceOf(c.out)
          /\ c.fn # "getQuote" => agg.data = Processed(c)

\* C15: a fetch made once the TTL has elapsed since the same fetch returned
\* issues at least one adapter call, and what it returns is not an older value.
C15_NoStaleValue ==
  agg.pc = "done" /\ agg.again = "stale" => Len(agg.calls) >= 1 /\ FromThisFetch
\* the same fetch was repeated after the TTL and answered by an adapter again
C15_Witness ==
  /\ agg.pc = "done" /\ agg.again = "stale"
  /\ agg.src \in Adapters
  /\ Len(agg.calls) >= 2

\* the adapter needs no key, or its key is neither missing nor the template's
HasUsableKey(a) ==
  \/ a = "yahoo"
  \/ a = "finnhub" /\ cfg.finnhub = "key"
  \/ a = "polygon" /\ cfg.polygon = "key"
  \/ a = "alphavantage" /\ cfg.alphaVantage = "key"

\* C16: no aggregator operation ever calls an adapter whose isConfigured() is
\* false; such an adapter is passed over and leaves no trace in the call.
C16_UnconfiguredNeverCalled ==
  \A i \in 1..Len(agg.calls) : HasUsableKey(agg.calls[i].adapter)
\* a call that passed over Finnhub and Polygon, which have no usable key, and
\* went on to Yahoo and Alpha Vantage
C16_Witness ==
  /\ agg.pc = "done"
  /\ ~HasUsableKey("finnhub") /\ ~HasUsableKey("polygon")
  /\ cfg.finnhub = "placeholder"
  /\ Len(agg.calls) = 2
  /\ agg.calls[1].adapter = "yahoo" /\ agg.calls[2].adapter = "alphavantage"

\* C17: whatever the adapters do (throw, null, empty), no operation rejects:
\* a throw is caught inside the aggregator and the call goes on to a value.
C17_NoErrorEscapes ==
  /\ agg.pc # "rejected"
  /\ (\E i \in 1..Len(agg.calls) : agg.calls[i].out.kind = "throw")
       => agg.pc \notin {"idle", "rejected"}
\* two adapters threw and the call still completed, with mock data
C17_Witness ==
  /\ agg.pc = "done"
  /\ Len(agg.calls) >= 2
  /\ \A i \in 1..Len(agg.calls) : agg.calls[i].out.kind = "throw"
  /\ agg.src = "mock"

\* C18: every adapter call is bounded by a request timeout, so no call of the
\* aggregator waits forever for an upstream that does not respond.
C18_NeverBlocked == agg.pc # "blocked"

\* the adapter API_PROVIDER names
NamedProvider == toLowerCase(cfg.provider)
\* the keyed providers other than the named one
OtherProviders == {"finnhub", "polygon", "alphavantage"} \ {NamedProvider}

\* C19: getStockData tries the provider named by API_PROVIDER first, another
\* provider only after the named one failed, and mock data only when all
\* configured providers failed or none has a key.
C19_NamedProviderFirst ==
  agg.pc = "done" /\ agg.op = "getStockData" =>
    /\ HasUsableKey(NamedProvider) /\ Len(agg.calls) > 0
         => agg.calls[1].adapter = NamedProvider
    /\ HasUsableKey(NamedProvider) =>
         \A i \in 1..Len(agg.calls) :
           agg.calls[i].adapter \in OtherProviders
             => \E j \in 1..(i - 1) :
                  agg.calls[j].adapter = NamedProvider /\ Failed(agg.calls[j])
    /\ agg.src = "mock" =>
         \A a \in {"finnhub", "polygon", "alphavantage"} :
           HasUsableKey(a) => \E i \in 1..Len(agg.calls) :
                                agg.calls[i].adapter = a /\ ~Succeeded(agg.calls[i])

\* whether the operation consults no further adapter after call c: decided by
\* the call site and by what the adapter answered, nothing else
Stops(c) ==
  CASE c.out.kind = "pending" -> TRUE
    [] c.fn = "getDataForTimeframe" ->
         IF c.adapter \in {"finnhub", "yahoo"}
         THEN c.out.kind = "data" /\ Len(filterByTimeframe(c.out.data, agg.tf)) > 0
         ELSE c.out.kind = "data" /\ Len(c.out.data) > 0
    [] c.fn = "getQuote" ->
         IF c.adapter \in {"finnhub", "yahoo"}
         THEN c.out.kind = "number" /\ c.out.price # 0
         ELSE c.out.kind # "null"
    [] c.fn \in {"getHistoricalData", "searchStocks"} ->
         c.out.kind = "data" /\ Len(c.out.data) > 0
    [] OTHER -> TRUE

\* C20: the adapters a call consults, and their order, are a function of the
\* configuration, the operation and the adapters' answers: the call log is the
\* configured chain cut after the first answer that ends it.
C20_OrderDeterministic ==
  agg.pc \in {"done", "blocked"} =>
    LET chain == ChainOf(agg.op)
        n == Len(agg.calls)
    IN /\ n <= Len(chain)
       /\ \A i \in 1..n : Step(agg.calls[i].adapter, agg.calls[i].fn) = chain[i]
       /\ \A i \in 1..(n - 1) : ~Stops(agg.calls[i])
       /\ n > 0 /\ n < Len(chain) => Stops(agg.calls[n])
       /\ n = 0 => Len(chain) = 0
\* the same call as the one before it, three adapters consulted
C20_Witness ==
  /\ agg.pc = "done"
  /\ agg.again # "no"
  /\ Len(agg.calls) >= 3
  /\ Stops(agg.calls[Len(agg.calls)])

(* ---------------------------------------------------------------------- *)
\* what the caller of the service receives: the list, or the price; nothing else
\* (server.js passes it on as { symbol, timeframe, data } or { symbol, price })
Response(a) == IF a.op = "getCurrentPrice" THEN a.value ELSE a.data
\* the responses the same call can get from a real provider
RealSeries(a) ==
  IF a.op = "getHistoricalData"
  THEN SeriesChoices \cup { RangeFilter(d, a.range) : d \in SeriesChoices }
  ELSE { filterByTimeframe(d, a.tf) : d \in SeriesChoices }
RealPrices ==
  { PriceOf(q) : q \in UNION { QuoteOutcomes(p) : p \in Adapters } }
    \cup { [kind |-> "number", price |-> d[Len(d)].close] : d \in SeriesChoices \ {<<>>} }
RealResponses(a) == IF a.op = "getCurrentPrice" THEN RealPrices ELSE RealSeries(a)
FromGenerator ==
  /\ agg.pc = "done"
  /\ agg.src = "mock"
  /\ IF agg.op = "getCurrentPrice" THEN agg.value.kind = "number" ELSE Len(agg.data) > 0

\* C21: a series or price that comes from the synthetic generator can be told
\* from real data by the caller: what is returned for it is never something a
\* real provider's answer to the same call can also be.
C21_SyntheticDistinguishable ==
  FromGenerator => Response(agg) \notin RealResponses(agg)

(* ---------------------------------------------------------------------- *)
FetchInFlight == inflight # EmptyBag
\* the handlers of a connected viewer can all run now
HandlersEnabled ==
  \A v \in connected, i \in SymbolInputs :
    /\ ENABLED Subscribe(v, i)
    /\ ENABLED Unsubscribe(v, i)
    /\ ENABLED Disconnect(v)
\* the handler that has just run has done everything it does to the room, the
\* loop map and the timers (none of the three handlers changes what is in flight,
\* except for the marks, so the fetch was in flight when the handler started)
HandlerCompleted ==
  LET s == event.symbol
  IN /\ event.op = "subscribe" =>
          /\ s \in subscribedSymbols
          /\ priceUpdateIntervals[s] # NoTimer
          /\ [id |-> priceUpdateIntervals[s], symbol |-> s] \in timers
          /\ rooms[s] # {}
     /\ (event.op = "unsubscribe" /\ rooms[s] = {}) =>
          /\ priceUpdateIntervals[s] = NoTimer
          /\ TimersOf(timers, s) = {}
     /\ event.op = "disconnect" =>
          /\ event.viewer \notin connected
          /\ \A x \in Symbols : event.viewer \notin rooms[x]

\* C22: network work never blocks the registry: while a tick's fetch is in
\* flight, subscribe, unsubscribe and disconnect can run, and each finishes its
\* reads and updates of the room, the loop map and the timers in one step,
\* with the fetch still in flight afterwards.
C22_RegistryNeverBlocked ==
  FetchInFlight => HandlersEnabled /\ HandlerCompleted
C22_Witness ==
  /\ FetchInFlight
  /\ event.op = "unsubscribe"
  /\ event.member
  /\ rooms[event.symbol] = {}
  /\ \E f \in BagToSet(inflight) : f.symbol = event.symbol

(* ---------------------------------------------------------------------- *)
\* FINNHUB_API_KEY, POLYGON_API_KEY and ALPHA_VANTAGE_API_KEY are all absent
NoKeys == cfg.finnhub = "" /\ cfg.polygon = "" /\ cfg.alphaVantage = ""

\* C23: with no API key configured, getStockData returns mock data: the series
\* it returns comes from the generator and from no real provider.
C23_NoKeysMeansMock ==
  (NoKeys /\ agg.op = "getStockData" /\ agg.pc = "done") => agg.src = "mock"

(* ---------------------------------------------------------------------- *)
\* C24: every priceUpdate carries the symbol of the loop that produced it, a
\* price that is a number greater than zero, and a timestamp; a null, undefined,
\* zero or negative price is never emitted.
C24_PayloadWellFormed ==
  /\ event.op = "priceUpdate" =>
       /\ DOMAIN event.payload = {"symbol", "price", "timestamp"}
       /\ event.payload.symbol = event.symbol
       /\ event.payload.symbol \in Symbols
       /\ event.payload.price.kind = "number"
       /\ event.payload.price.price > 0
       /\ event.payload.timestamp # ""
  /\ event.op # "priceUpdate" => event.payload = NoPayload
C24_Witness ==
  /\ event.op = "priceUpdate"
  /\ event.payload.price.price = 150
  /\ event.recipients # {}

(* ---------------------------------------------------------------------- *)
\* C25: whatever the adapters answer, getCurrentPrice returns a number greater
\* than zero or null; never undefined, zero or something that is not a number.
C25_PriceOrNull ==
  (agg.op = "getCurrentPrice" /\ agg.pc = "done") =>
    \/ agg.value.kind = "null"
    \/ agg.value.kind = "number" /\ agg.value.price > 0

(* ---------------------------------------------------------------------- *)
\* the cap on the number of matches of a search
MaxMatches == 10

\* C26: searchStocks returns a list of at most 10 matches, whichever adapter
\* answers and however many matches the upstream sends; the list is empty, and
\* the call does not fail, when nothing matches or every adapter fails.
C26_AtMostTenMatches ==
  (agg.op = "searchStocks" /\ agg.pc = "done") => Len(agg.data) <= MaxMatches

(* ---------------------------------------------------------------------- *)
\* C27: nothing of a cancelled loop is published: a tick whose fetch was in
\* flight when its loop was cancelled emits no priceUpdate when the fetch
\* completes, whether or not a new loop was started for the symbol meanwhile.
C27_CancelledLoopSilent ==
  event.cancelled => event.op # "priceUpdate"

(* ---------------------------------------------------------------------- *)
\* the fetches of symbol s that are in flight
FetchesOf(s) ==
  LET S == { f \in BagToSet(inflight) : f.symbol = s }
  IN BagCardinality([f \in S |-> CopiesIn(f, inflight)])

\* C28: per symbol at most one fetch is in flight: while a fetch of a symbol's
\* loop has not completed, a later tick of that loop starts no second fetch
\* (so that the priceUpdates of the symbol are emitted in tick order).
C28_OneFetchPerSymbol ==
  \A s \in Symbols : FetchesOf(s) <= 1

(* ---------------------------------------------------------------------- *)
\* the connected viewers of symbol s
ViewersOf(s) == rooms[s] \cap connected

\* C29: whenever the viewer set of a symbol holds at least one connected viewer,
\* a loop is registered for the symbol and its timer is active.
C29_ViewersHaveLoop ==
  \A s \in Symbols :
    ViewersOf(s) # {} =>
      /\ priceUpdateIntervals[s] # NoTimer
      /\ [id |-> priceUpdateIntervals[s], symbol |-> s] \in timers
\* one of two viewers of a symbol has left it, by unsubscribing or disconnecting
C29_Witness ==
  /\ \/ event.op = "unsubscribe" /\ event.member
     \/ event.op = "disconnect" /\ event.left # {}
  /\ \E s \in Symbols : ViewersOf(s) # {} /\ (s = event.symbol \/ s \in event.left)

(* ---------------------------------------------------------------------- *)
\* room, loop registration and timer of symbol y are what they were
Untouched(y) ==
  /\ rooms'[y] = rooms[y]
  /\ priceUpdateIntervals'[y] = priceUpdateIntervals[y]
  /\ TimersOf(timers', y) = TimersOf(timers, y)
  /\ (y \in subscribedSymbols') = (y \in subscribedSymbols)

\* C30: a subscribe, an unsubscribe or a tick (its start and its end) for a
\* symbol leaves the viewer set, the loop registration and the timer of every
\* other symbol unchanged.
C30_OtherSymbolsUntouched ==
  [][event'.op \in {"subscribe", "unsubscribe", "tick", "skip", "priceUpdate"} =>
       \A y \in Symbols \ {event'.symbol} : Untouched(y)]_vars
\* the loop of one symbol was stopped while the other symbol has a viewer and a loop
C30_Witness ==
  /\ event.op = "unsubscribe" /\ event.member
  /\ ~LoopExists(event.symbol)
  /\ \E y \in Symbols \ {event.symbol} : rooms[y] # {} /\ LoopRuns(y)

(* ---------------------------------------------------------------------- *)
\* C31: an empty result is a soft failure for every adapter of getStockData: a
\* series that is empty, or empty after filterByTimeframe, sends the call on to
\* the next adapter, so no empty series obtained from an adapter is returned.
C31_EmptyIsSoftFailure ==
  (agg.op = "getStockData" /\ agg.pc = "done" /\ agg.src \in Adapters)
    => Len(agg.data) > 0

(* ---------------------------------------------------------------------- *)
\* generateMockData for every weekday of startDate, short series and every
\* relation of the local day to the UTC day
MockDayCounts == DayCounts \cup {7}
DateInit ==
  mock \in { [MockIdle EXCEPT !.start = d, !.cur = b, !.days = n, !.shift = z] :
               d \in 0..6, b \in BasePrices, n \in MockDayCounts, z \in UtcShifts }

\* C32: a series of generateMockData is strictly ascending by date with no two
\* candles on one date, has no candle dated a Saturday or Sunday, has at most
\* `days` candles, and all its dates lie within the `days` days before now.
C32_MockDatesWellFormed ==
  mock.pushed =>
    /\ mock.candle.date > mock.prev
    /\ IsoDay(mock, mock.candle.date) \notin {0, 6}
    /\ mock.count <= mock.days
    /\ mock.candle.date >= mock.shift
    /\ mock.candle.date < mock.days + mock.shift

(* ---------------------------------------------------------------------- *)
\* C33: with no API key configured and no provider yielding a match,
\* searchStocks returns the built-in list of common stocks, filtered by the
\* query, and not an empty list in its place.
C33_CommonStocksWithoutKeys ==
  (NoKeys /\ agg.op = "searchStocks" /\ agg.pc = "done" /\ agg.src \notin Adapters)
    => /\ agg.src = "common"
       /\ agg.data = Items(CommonMatches(agg.query))

(* ---------------------------------------------------------------------- *)
\* C34: after any interleaving of symbol selections, timeframe changes, Live
\* and Historical clicks and fetch completions, the client is subscribed on the
\* server to at most one symbol, and that symbol is currentSymbol; it is never
\* left subscribed to a symbol selected before.
C34_OnlyCurrentSymbol ==
  /\ Cardinality(client.subs) <= 1
  /\ client.subs \subseteq {client.currentSymbol}
\* the client has been subscribed to both symbols, every load has ended, and it
\* is subscribed to the current one
C34_Witness ==
  /\ client.was = ClientSymbols
  /\ client.tasks = EmptyBag
  /\ client.subs = {client.currentSymbol}

\* nothing of the client is pending
NoLoadInFlight == client.tasks = EmptyBag

\* C35: whenever the client is in live view with a symbol selected and no chart
\* or historical load in flight, it is subscribed to the current symbol, under
\* every order of completion of the loads and also after loads that failed.
C35_LiveViewSubscribed ==
  (~client.isHistoricalView /\ client.currentSymbol # "" /\ NoLoadInFlight)
    => client.currentSymbol \in client.subs

\* C36: while the client is in historical view and no load is in flight, it is
\* subscribed to real-time updates of no symbol, also after the user selected
\* another symbol while in historical view.
C36_HistoricalViewUnsubscribed ==
  (client.isHistoricalView /\ NoLoadInFlight) => client.subs = {}

(* ---------------------------------------------------------------------- *)
\* C37: after any sequence of POST /api/trade requests with arbitrary bodies,
\* negative and non-integer quantities and prices included, cash is never
\* negative and every entry of holdings is a quantity greater than zero.
C37_PortfolioNonNegative ==
  /\ portfolio.cash >= 0
  /\ \A s \in portfolio.keys : portfolio.holdings[s] > 0

\* C38: a trade request rejected with status 400 leaves cash, holdings and the
\* trades log unchanged; every accepted trade appends exactly one record to the
\* log, and a rejected one none.
C38_RejectedTradeNoEffect ==
  [][/\ portfolio'.status = 400 =>
          /\ portfolio'.cash = portfolio.cash
          /\ portfolio'.keys = portfolio.keys
          /\ portfolio'.holdings = portfolio.holdings
          /\ portfolio'.trades = portfolio.trades
     /\ portfolio'.status = 200 =>
          /\ Len(portfolio'.trades) = Len(portfolio.trades) + 1
          /\ SubSeq(portfolio'.trades, 1, Len(portfolio.trades)) = portfolio.trades
          /\ LET r == portfolio'.trades[Len(portfolio'.trades)]
             IN r.totalCost = (r.quantity * r.price) \div 2]_vars
\* a request was rejected after a trade had been accepted
C38_Witness ==
  /\ portfolio.status = 400
  /\ Len(portfolio.trades) > 0
  /\ portfolio.cash # InitialCash

MockSpecInit == RegInit /\ AggFixed /\ MockInit /\ AppIdle
MockSpec == MockSpecInit /\ [][MockNext]_vars

DateSpecInit == RegInit /\ AggFixed /\ DateInit /\ AppIdle
DateSpec == DateSpecInit /\ [][MockNext]_vars

OverlapSpec == Init /\ [][OverlapNext]_vars

PortfolioSpec == Init /\ [][PortfolioNext]_vars

ClientSpecInit == RegInit /\ AggFixed /\ mock = MockIdle /\ ClientInit /\ portfolio = Portfolio0
ClientSpec == ClientSpecInit /\ [][ClientNext]_vars

AggSpecInit == RegInit /\ AggInit /\ mock = MockIdle /\ AppIdle
AggSpec == AggSpecInit /\ [][AggNext]_vars

====
